---- MODULE Spec2Model ----
(***************************************************************************)
(* A model of lerobotlab's convert module (src/src/lerobotlab/convert.py): *)
(* the orchestration of convert_datasets, the format registry              *)
(* (get_supported_formats, validate_format, _get_converter) and the        *)
(* estimate_conversion_time helper.                                        *)
(*                                                                         *)
(* Python strings that the code inspects character by character            *)
(* (str.lower, str.upper, ==) are sequences of one-character strings.      *)
(* Opaque strings (paths, repo ids, messages) are TLA+ strings.            *)
(***************************************************************************)
EXTENDS Integers, Sequences, FiniteSets, TLC

VARIABLES
    selection_data,  \* convert_datasets argument: the selection document
    output_path,     \* convert_datasets argument
    input_path,      \* convert_datasets argument, None when not given
    format,          \* convert_datasets argument
    verbose,         \* convert_datasets argument
    fs,              \* the filesystem: path -> "absent" | "dir" | "file"
    fs0,             \* the filesystem as it was when the run started
    pc,              \* position of the run inside convert_datasets
    input_dir,       \* local input_dir
    datasets,        \* local datasets
    i,               \* loop counter of enumerate(datasets, 1)
    converter,       \* local converter, None before the first iteration
    calls,           \* the invocations of converter.convert_dataset so far
    results,         \* what each returned invocation returned
    echo,            \* the lines written with click.echo
    raised,          \* the exception that left convert_datasets, or NoError
    fn,              \* which pure helper a helper run applies
    arg,             \* argument of the helper
    ret              \* outcome of the helper

vars == << selection_data, output_path, input_path, format, verbose, fs, fs0, pc,
           input_dir, datasets, i, converter, calls, results, echo, raised,
           fn, arg, ret >>

helperVars == << fn, arg, ret >>

-----------------------------------------------------------------------------
(* Bounds of the model *)

MaxDatasets == 3     \* longest `datasets` list of a selection document
MaxK == 60           \* total_frames ranges over the multiples of FrameStep up to MaxK * FrameStep
FrameStep == 1500    \* spacing of the sampled total_frames values

-----------------------------------------------------------------------------
(* Python values *)

\* Python's None: a value different from every path and string of the model.
None == << >>
NoError == [type |-> "NoError"]

\* dict.get(key, default)
Get(d, key, default) == IF key \in DOMAIN d THEN d[key] ELSE default

Letters == << "a","b","c","d","e","f","g","h","i","j","k","l","m",
              "n","o","p","q","r","s","t","u","v","w","x","y","z" >>
Capitals == << "A","B","C","D","E","F","G","H","I","J","K","L","M",
               "N","O","P","Q","R","S","T","U","V","W","X","Y","Z" >>

LowerChar(c) ==
    IF \E k \in 1..26 : Capitals[k] = c
    THEN Letters[CHOOSE k \in 1..26 : Capitals[k] = c]
    ELSE c

UpperChar(c) ==
    IF \E k \in 1..26 : Letters[k] = c
    THEN Capitals[CHOOSE k \in 1..26 : Letters[k] = c]
    ELSE c

\* str.lower() and str.upper()
lower(s) == [k \in 1..Len(s) |-> LowerChar(s[k])]
upper(s) == [k \in 1..Len(s) |-> UpperChar(s[k])]

droid == << "d","r","o","i","d" >>
vjepa2_ac == << "v","j","e","p","a","2","-","a","c" >>
hdf5 == << "h","d","f","5" >>
zarr == << "z","a","r","r" >>

-----------------------------------------------------------------------------
(* Format registry *)

get_supported_formats == << droid, vjepa2_ac >>

\* `x in list`
In(x, list) == \E k \in 1..Len(list) : list[k] = x

UnsupportedFormatError(f) ==
    [type |-> "ClickException", message |-> "Unsupported format", format |-> f]

validate_format_unchanged(f) ==
    LET format_lower == lower(f)
        supported == get_supported_formats
    IN  IF ~In(format_lower, supported)
        THEN [raise |-> UnsupportedFormatError(f)]
        ELSE [value |-> f]

validate_format(f) ==
    LET format_lower == lower(f)
        supported == get_supported_formats
    IN  IF ~In(format_lower, supported)
        THEN [raise |-> UnsupportedFormatError(f)]
        ELSE [value |-> format_lower]

\* The converter factory; a converter instance is modelled by its class.
_get_converter(f, v) ==
    IF f = droid THEN [value |-> [class |-> "DROIDConverter", verbose |-> v]]
    ELSE IF f = vjepa2_ac THEN [value |-> [class |-> "VJEPA2ACConverter", verbose |-> v]]
    ELSE [raise |-> UnsupportedFormatError(f)]

-----------------------------------------------------------------------------
(* Paths and the filesystem.  A path is the sequence of its components. *)

Path(p) == p
Join(p, name) == Append(p, name)        \* p / name
Name(p) == p[Len(p)]                    \* p.name
exists(f, p) == f[p] # "absent"         \* p.exists()

OutPath == << "out" >>
InPath == << "in" >>
TempPath == Join(OutPath, "temp_downloads")
Paths == { OutPath, InPath, TempPath }

\* Path.mkdir(parents=True, exist_ok=True): creates the directory, leaves an
\* existing directory alone, and raises when the path is an existing file.
mkdir(f, p) ==
    IF f[p] = "file"
    THEN [raise |-> [type |-> "FileExistsError", path |-> p]]
    ELSE [value |-> [f EXCEPT ![p] = "dir"]]

-----------------------------------------------------------------------------
(* Exceptions *)

InputMissingError(p) ==
    [type |-> "ClickException", message |-> "Input directory does not exist", path |-> p]

KeyError(key) == [type |-> "KeyError", key |-> key]

ConverterError == [type |-> "Exception", message |-> "raised by convert_dataset"]

\* The handler of a variant that lets click's own exceptions through unwrapped.
Wrap_reraise_click(e) ==
    IF e.type = "ClickException"
    THEN e
    ELSE [type |-> "ClickException", message |-> "Conversion failed", cause |-> e]

\* except Exception as e: raise click.ClickException(f"Conversion failed: {e}")
Wrap(e) == [type |-> "ClickException", message |-> "Conversion failed", cause |-> e]

-----------------------------------------------------------------------------
(* The converter collaborator: what one call of convert_dataset can do. *)

ConverterResults ==
    { [status |-> "ok", message |-> "done", episodes_converted |-> 2],
      [status |-> "ok", message |-> "done"],
      [status |-> "error", message |-> "failed"],
      [message |-> "no status"] }

ConverterOutcomes ==
    { [value |-> r] : r \in ConverterResults } \cup { [raise |-> ConverterError] }

-----------------------------------------------------------------------------
(* Steps of convert_datasets *)

Line(text) == [text |-> text]

\* dataset['repo_id'] and dataset['selected_videos']
Extract_with_defaults(dataset) ==
    [value |-> [repo_id |-> Get(dataset, "repo_id", "unknown"),
                selected_videos |-> Get(dataset, "selected_videos", << >>)]]

Extract(dataset) ==
    IF "repo_id" \notin DOMAIN dataset THEN [raise |-> KeyError("repo_id")]
    ELSE IF "selected_videos" \notin DOMAIN dataset THEN [raise |-> KeyError("selected_videos")]
    ELSE [value |-> [repo_id |-> dataset["repo_id"],
                     selected_videos |-> dataset["selected_videos"]]]

\* for i, dataset in enumerate(datasets, 1): the dataset of iteration k
DatasetAt_reversed(ds, k) == ds[Len(ds) + 1 - k]

DatasetAt(ds, k) == ds[k]

\* if not input_dir.exists()
InputMissing_unchecked(f, p) == FALSE

InputMissing(f, p) == ~exists(f, p)

\* Lines 70-78: what the loop does with the result of one call.
InspectResult_abort_on_error(result, repo_id, v) ==
    IF "status" \notin DOMAIN result THEN [raise |-> KeyError("status")]
    ELSE IF result["status"] = "error"
    THEN [raise |-> [type |-> "ClickException", message |-> result["message"]]]
    ELSE [value |-> << >>]

InspectResult(result, repo_id, v) ==
    IF "status" \notin DOMAIN result THEN [raise |-> KeyError("status")]
    ELSE
      LET first ==
            IF result["status"] = "error"
            THEN << [text |-> "failed", message |-> result["message"]] >>
            ELSE IF v
            THEN << [text |-> "ok", message |-> result["message"]] >>
                 \o (IF "episodes_converted" \in DOMAIN result
                     THEN << [text |-> "Episodes converted",
                              count |-> result["episodes_converted"]] >>
                     ELSE << >>)
            ELSE << >>
          last ==
            IF v THEN << [text |-> "converted successfully", repo_id |-> repo_id] >>
            ELSE << >>
      IN [value |-> first \o last]

IsRaise(r) == "raise" \in DOMAIN r

\* Lines 24-29
MakeOutputDir ==
    /\ pc = "mkdir"
    /\ LET r == mkdir(fs, Path(output_path))
       IN IF IsRaise(r)
          THEN /\ pc' = "raised"
               /\ raised' = Wrap(r.raise)
               /\ UNCHANGED << fs, echo >>
          ELSE /\ fs' = r.value
               /\ echo' = IF verbose
                          THEN Append(echo, [text |-> "Created output directory",
                                             path |-> output_path])
                          ELSE echo
               /\ pc' = "input"
               /\ UNCHANGED raised
    /\ UNCHANGED << selection_data, output_path, input_path, format, verbose, fs0,
                    input_dir, datasets, i, converter, calls, results >>
    /\ UNCHANGED helperVars

\* Lines 31-42
HandleInputPath ==
    /\ pc = "input"
    /\ IF input_path = None
       THEN /\ input_dir' = Join(Path(output_path), "temp_downloads")
            /\ echo' = (IF verbose THEN Append(echo, Line("No input path provided"))
                        ELSE echo)
                       \o << Line("Downloading datasets for conversion...") >>
            /\ pc' = "datasets"
            /\ UNCHANGED raised
       ELSE /\ input_dir' = Path(input_path)
            /\ IF InputMissing(fs, Path(input_path))
               THEN /\ pc' = "raised"
                    /\ raised' = Wrap(InputMissingError(input_path))
               ELSE /\ pc' = "datasets"
                    /\ UNCHANGED raised
            /\ UNCHANGED echo
    /\ UNCHANGED << selection_data, output_path, input_path, format, verbose, fs, fs0,
                    datasets, i, converter, calls, results >>
    /\ UNCHANGED helperVars

\* Lines 44-51, and the start of the loop of line 54
GetDatasets ==
    /\ pc = "datasets"
    /\ datasets' = Get(selection_data, "datasets", << >>)
    /\ echo' = IF verbose
               THEN LET metadata == Get(selection_data, "metadata", << >>)
                    IN Append(echo, [text |-> "Converting datasets",
                                     count |-> Len(datasets'),
                                     format |-> upper(format)])
                       \o (IF "total_episodes" \in DOMAIN metadata
                           THEN << [text |-> "Total episodes to convert",
                                    count |-> metadata["total_episodes"]] >>
                           ELSE << >>)
               ELSE echo
    /\ i' = 1
    /\ pc' = "loop"
    /\ UNCHANGED << selection_data, output_path, input_path, format, verbose, fs, fs0,
                    input_dir, converter, calls, results, raised >>
    /\ UNCHANGED helperVars

\* Lines 54-66: one more dataset; its fields are read and the converter is built.
NextDataset ==
    /\ pc = "loop"
    /\ i <= Len(datasets)
    /\ LET d == Extract(DatasetAt(datasets, i))
           c == _get_converter(format, verbose)
       IN IF IsRaise(d)
          THEN /\ pc' = "raised"
               /\ raised' = Wrap(d.raise)
               /\ UNCHANGED << converter, echo >>
          ELSE IF IsRaise(c)
          THEN /\ pc' = "raised"
               /\ raised' = Wrap(c.raise)
               /\ echo' = IF verbose
                          THEN echo \o << [text |-> "Converting dataset (progress)",
                                           index |-> i, of |-> Len(datasets),
                                           repo_id |-> d.value.repo_id],
                                          [text |-> "Selected videos",
                                           videos |-> d.value.selected_videos] >>
                          ELSE echo
               /\ UNCHANGED converter
          ELSE /\ converter' = c.value
               /\ echo' = (IF verbose
                           THEN echo \o << [text |-> "Converting dataset (progress)",
                                            index |-> i, of |-> Len(datasets),
                                            repo_id |-> d.value.repo_id],
                                           [text |-> "Selected videos",
                                            videos |-> d.value.selected_videos] >>
                           ELSE echo)
                          \o << [text |-> "Converting dataset",
                                 repo_id |-> d.value.repo_id],
                                [text |-> "Output file", path |-> output_path] >>
               /\ pc' = "invoke"
               /\ UNCHANGED raised
    /\ UNCHANGED << selection_data, output_path, input_path, format, verbose, fs, fs0,
                    input_dir, datasets, i, calls, results >>
    /\ UNCHANGED helperVars

\* Lines 68-78: the call of the converter and the inspection of its result.
ConvertDataset ==
    /\ pc = "invoke"
    /\ LET d == Extract(DatasetAt(datasets, i)).value
       IN /\ calls' = Append(calls, [repo_id |-> d.repo_id,
                                     selected_videos |-> d.selected_videos,
                                     input_dir |-> input_dir,
                                     output_dir |-> Path(output_path),
                                     converter |-> converter.class])
          /\ \E out \in ConverterOutcomes :
                IF IsRaise(out)
                THEN /\ pc' = "raised"
                     /\ raised' = Wrap(out.raise)
                     /\ UNCHANGED << results, echo, i >>
                ELSE LET r == InspectResult(out.value, d.repo_id, verbose)
                     IN /\ results' = Append(results, out.value)
                        /\ IF IsRaise(r)
                           THEN /\ pc' = "raised"
                                /\ raised' = Wrap(r.raise)
                                /\ UNCHANGED << echo, i >>
                           ELSE /\ echo' = echo \o r.value
                                /\ i' = i + 1
                                /\ pc' = "loop"
                                /\ UNCHANGED raised
    /\ UNCHANGED << selection_data, output_path, input_path, format, verbose, fs, fs0,
                    input_dir, datasets, converter >>
    /\ UNCHANGED helperVars

\* Lines 80-86: the summary and the (message-only) clean-up, after the loop.
Summary ==
    /\ pc = "loop"
    /\ i > Len(datasets)
    /\ echo' = echo
               \o << [text |-> "All datasets converted", count |-> Len(datasets),
                      format |-> upper(format)],
                     [text |-> "Output directory", path |-> output_path] >>
               \o (IF input_path = None /\ Name(input_dir) = "temp_downloads" /\ verbose
                   THEN << Line("Cleaning up temporary download files...") >>
                   ELSE << >>)
    /\ pc' = "done"
    /\ UNCHANGED << selection_data, output_path, input_path, format, verbose, fs, fs0,
                    input_dir, datasets, i, converter, calls, results, raised >>
    /\ UNCHANGED helperVars

-----------------------------------------------------------------------------
(* A run of convert_datasets *)

RepoIds == { "user/a", "user/b" }
Videos == << "observation.images.cam" >>

DatasetEntries ==
    { [repo_id |-> r, selected_videos |-> Videos] : r \in RepoIds }
    \cup { [repo_id |-> "user/a"], [selected_videos |-> Videos] }

SeqsUpTo(S, n) == UNION { [1..k -> S] : k \in 0..n }

SelectionDocuments ==
    { [metadata |-> [total_episodes |-> 3], datasets |-> ds] :
        ds \in SeqsUpTo(DatasetEntries, MaxDatasets) }
    \cup { [metadata |-> [saved_at |-> "2025-08-02"]] }

Formats == { hdf5, droid, vjepa2_ac, upper(droid) }

\* The filesystem before the run: the output path is absent, a directory
\* (with or without temp_downloads left in it) or a file; the input path is
\* absent or a directory.
Filesystems ==
    { f \in [Paths -> {"absent", "dir", "file"}] :
        /\ f[InPath] # "file"
        /\ f[TempPath] # "file"
        /\ f[TempPath] = "dir" => f[OutPath] = "dir" }

HelperIdle ==
    /\ fn = "none"
    /\ arg = None
    /\ ret = None

Init ==
    /\ selection_data \in SelectionDocuments
    /\ output_path = OutPath
    /\ input_path \in { None, InPath }
    /\ format \in Formats
    /\ verbose \in BOOLEAN
    /\ fs \in Filesystems
    /\ fs0 = fs
    /\ pc = "mkdir"
    /\ input_dir = None
    /\ datasets = << >>
    /\ i = 0
    /\ converter = None
    /\ calls = << >>
    /\ results = << >>
    /\ echo = << >>
    /\ raised = NoError
    /\ HelperIdle

Next ==
    \/ MakeOutputDir
    \/ HandleInputPath
    \/ GetDatasets
    \/ NextDataset
    \/ ConvertDataset
    \/ Summary

Spec == Init /\ [][Next]_vars

-----------------------------------------------------------------------------
(* estimate_conversion_time *)

\* f"{num/den:.0f}": the quotient rounded to an integer.  A quotient ending
\* in .5 is exact in binary floating point and goes to the even neighbour.
Format0(num, den) ==
    LET q == num \div den
        r == num % den
    IN  IF 2 * r < den THEN q
        ELSE IF 2 * r > den THEN q + 1
        ELSE IF q % 2 = 0 THEN q ELSE q + 1

\* f"{num/den:.1f}": the tenths the quotient can be rendered with.  A quotient
\* half way between two tenths is not exact in binary floating point, and the
\* rendering goes to the side the rounding error of the division falls on.
Format1(num, den) ==
    LET q == (10 * num) \div den
        r == (10 * num) % den
    IN  IF 2 * r < den THEN { q }
        ELSE IF 2 * r > den THEN { q + 1 }
        ELSE { q, q + 1 }

Seconds(n) == << "~", n, " seconds" >>
Minutes(t) == << "~", t \div 10, ".", t % 10, " minutes" >>
Hours(t) == << "~", t \div 10, ".", t % 10, " hours" >>

\* The values estimate_conversion_time can return for a selection document
\* (one value, except where Format1 leaves two renderings).
\* `if total_frames:` is false for None (the key is absent) and for 0.
estimate_conversion_time(sd) ==
    LET metadata == Get(sd, "metadata", << >>)
        total_frames == Get(metadata, "total_frames", None)
    IN  IF "total_frames" \in DOMAIN metadata /\ total_frames # 0
        THEN \* estimated_seconds = total_frames / 1000
             IF total_frames < 60 * 1000
             THEN { Seconds(Format0(total_frames, 1000)) }
             ELSE IF total_frames < 3600 * 1000
             THEN { Minutes(t) : t \in Format1(total_frames, 1000 * 60) }
             ELSE { Hours(t) : t \in Format1(total_frames, 1000 * 3600) }
        ELSE { None }

-----------------------------------------------------------------------------
(* Runs of the helpers: one helper applied to one argument. *)

RunIdle ==
    /\ selection_data = [metadata |-> [saved_at |-> "2025-08-02"]]
    /\ output_path = OutPath
    /\ input_path = None
    /\ format = hdf5
    /\ verbose = FALSE
    /\ fs = [p \in Paths |-> "absent"]
    /\ fs0 = fs
    /\ input_dir = None
    /\ datasets = << >>
    /\ i = 0
    /\ converter = None
    /\ calls = << >>
    /\ results = << >>
    /\ echo = << >>
    /\ raised = NoError

\* Every way of writing the word w in upper and lower case.
CaseVariants(w) ==
    { [k \in 1..Len(w) |-> IF k \in S THEN UpperChar(w[k]) ELSE w[k]] :
        S \in SUBSET (1..Len(w)) }

FormatStrings ==
    UNION { CaseVariants(w) :
              w \in { droid, vjepa2_ac, hdf5, zarr,
                      << "d","r","o","i" >>,
                      << "d","r","o","i","d","s" >>,
                      << " ","d","r","o","i","d" >>,
                      << "v","j","e","p","a","2","_","a","c" >>,
                      << "v","j","e","p","a","2" >> } }
    \cup { << >> }

InitValidate ==
    /\ RunIdle
    /\ pc = "call"
    /\ fn = "validate_format"
    /\ arg \in FormatStrings
    /\ ret = None

ApplyValidateFormat ==
    /\ pc = "call"
    /\ fn = "validate_format"
    /\ ret' = validate_format(arg)
    /\ pc' = "return"
    /\ UNCHANGED << selection_data, output_path, input_path, format, verbose, fs, fs0,
                    input_dir, datasets, i, converter, calls, results, echo, raised,
                    fn, arg >>

NextValidate == ApplyValidateFormat

SpecValidate == InitValidate /\ [][NextValidate]_vars

TotalFrames ==
    { k * FrameStep : k \in 0..MaxK }
    \cup { 1, 499, 500, 501, 1997, 59999, 60001, 120000, 696391,
           3599999, 3600000, 3600001, 3780000, 7200000 }

EstimateDocuments ==
    { [metadata |-> [total_episodes |-> 3, total_frames |-> n], datasets |-> << >>] :
        n \in TotalFrames }
    \cup { [metadata |-> [total_episodes |-> 3], datasets |-> << >>],
           [datasets |-> << >>] }

InitEstimate ==
    /\ RunIdle
    /\ pc = "call"
    /\ fn = "estimate_conversion_time"
    /\ arg \in EstimateDocuments
    /\ ret = None

ApplyEstimate ==
    /\ pc = "call"
    /\ fn = "estimate_conversion_time"
    /\ ret' \in estimate_conversion_time(arg)
    /\ pc' = "return"
    /\ UNCHANGED << selection_data, output_path, input_path, format, verbose, fs, fs0,
                    input_dir, datasets, i, converter, calls, results, echo, raised,
                    fn, arg >>

NextEstimate == ApplyEstimate

SpecEstimate == InitEstimate /\ [][NextEstimate]_vars

-----------------------------------------------------------------------------
(* Vocabulary of the properties *)

Supported(f) == In(f, get_supported_formats)

DocumentDatasets == Get(selection_data, "datasets", << >>)

WellFormed(d) == "repo_id" \in DOMAIN d /\ "selected_videos" \in DOMAIN d

AllWellFormed == \A k \in 1..Len(DocumentDatasets) : WellFormed(DocumentDatasets[k])

HasMalformed == ~AllWellFormed

\* Position of the first entry that lacks a required field.
FirstMalformed ==
    CHOOSE k \in 1..Len(DocumentDatasets) :
        /\ ~WellFormed(DocumentDatasets[k])
        /\ \A j \in 1..(k - 1) : WellFormed(DocumentDatasets[j])

InputUsable == input_path = None \/ exists(fs0, input_path)

\* The repo_id arguments of the converter invocations, in order.
InvokedRepoIds == [k \in 1..Len(calls) |-> calls[k].repo_id]

\* The repo_ids of a document of well-formed entries, in document order.
DocumentRepoIds == [k \in 1..Len(DocumentDatasets) |-> DocumentDatasets[k].repo_id]

IsError(r) == "status" \in DOMAIN r /\ r["status"] = "error"

ErrorCount == Cardinality({ k \in 1..Len(results) : IsError(results[k]) })

SummaryLines ==
    { k \in 1..Len(echo) : echo[k].text = "All datasets converted" }

Terminated == pc \in { "done", "raised" }

\* The exceptions that come from outside convert_datasets' own checks: the
\* filesystem refusing the output directory, the converter raising, and the
\* converter returning a result without a status.
CollaboratorFailure ==
    /\ pc = "raised"
    /\ "cause" \in DOMAIN raised
    /\ \/ raised.cause.type = "FileExistsError"
       \/ raised.cause = ConverterError
       \/ raised.cause = KeyError("status")

-----------------------------------------------------------------------------
(* C1 *)

\* C1: in a run over a document of N well-formed entries, with a supported
\* format and a usable input directory, the repo_ids passed to
\* converter.convert_dataset are at every moment the first ones of the
\* document, in document order; the run can only end by returning or by an
\* exception from the filesystem or the converter itself; and when it returns
\* the converter has been invoked exactly N times, once per entry, in order.
C1_Theorem ==
    (Supported(format) /\ AllWellFormed /\ InputUsable) =>
        /\ Len(calls) <= Len(DocumentDatasets)
        /\ InvokedRepoIds = SubSeq(DocumentRepoIds, 1, Len(calls))
        /\ pc = "raised" => CollaboratorFailure
        /\ pc = "done" => InvokedRepoIds = DocumentRepoIds

C1_Witness ==
    /\ Supported(format) /\ AllWellFormed /\ InputUsable
    /\ pc = "done"
    /\ Len(calls) >= 2
    /\ calls[1].repo_id # calls[2].repo_id
    /\ InvokedRepoIds = DocumentRepoIds

-----------------------------------------------------------------------------
(* C2 *)

\* The step in which the converter returns a result with status "error".
ErrorReturned ==
    /\ Len(results') = Len(results) + 1
    /\ IsError(results'[Len(results')])

\* C2: the step in which a converter call returns status "error" raises
\* nothing and leaves the loop running at the next dataset, and a run that
\* returns has passed every dataset of the document to the converter and has
\* written the summary, however many results were errors.
C2_Theorem ==
    /\ [][ErrorReturned => (pc' = "loop" /\ i' = i + 1 /\ raised' = NoError)]_vars
    /\ [](pc = "done" => (Len(calls) = Len(DocumentDatasets) /\ SummaryLines # {}))

C2_Witness ==
    /\ pc = "done"
    /\ Len(results) >= 2
    /\ IsError(results[1])
    /\ Len(calls) = Len(DocumentDatasets)

-----------------------------------------------------------------------------
(* C3 *)

\* C3: a run whose format is not supported never returns, fails with the
\* unsupported-format error only, and leaves the filesystem as it found it
\* (the output directory is not created), whatever the number of datasets.
C3_Original ==
    ~Supported(format) =>
        /\ fs = fs0
        /\ pc # "done"
        /\ pc = "raised" => raised = Wrap(UnsupportedFormatError(format))

-----------------------------------------------------------------------------
(* C4 *)

\* C4: the count of the final summary is the number of datasets whose
\* converter result was not an error: N - k after k error results.
C4_Original ==
    pc = "done" =>
        \A k \in SummaryLines : echo[k].count = Len(DocumentDatasets) - ErrorCount

-----------------------------------------------------------------------------
(* C5 *)

InputGivenButMissing == input_path # None /\ ~exists(fs0, input_path)

-----------------------------------------------------------------------------
(* C6 *)

\* C6: when an entry of the document lacks repo_id or selected_videos, the
\* converter is invoked for no dataset of the document.
C6_Original ==
    HasMalformed => calls = << >>

\* C6 as amended: when an entry lacks repo_id or selected_videos, the run
\* never returns normally, the converter is never invoked for the first such
\* entry nor for any entry after it (the entries before it are passed to the
\* converter as usual), and a run that gets as far as that entry ends there
\* with the KeyError of the missing field as the cause.
C6_Amended ==
    HasMalformed =>
        /\ pc # "done"
        /\ Len(calls) < FirstMalformed
        /\ (pc = "raised" /\ i = FirstMalformed) =>
              /\ raised.message = "Conversion failed"
              /\ raised.cause.type = "KeyError"
              /\ raised.cause.key \notin DOMAIN DocumentDatasets[FirstMalformed]
              /\ Len(calls) = FirstMalformed - 1

C6_Witness ==
    /\ HasMalformed
    /\ FirstMalformed >= 2
    /\ pc = "raised"
    /\ i = FirstMalformed
    /\ Len(calls) = FirstMalformed - 1
    /\ raised.cause.type = "KeyError"

-----------------------------------------------------------------------------
(* C7 *)

\* The exception raised inside the try block, told from where the run stopped.
OriginalCause ==
    IF fs0[output_path] = "file" THEN [type |-> "FileExistsError", path |-> output_path]
    ELSE IF i = 0 THEN InputMissingError(input_path)
    ELSE IF Len(calls) = i - 1
         THEN IF ~WellFormed(datasets[i])
              THEN KeyError(IF "repo_id" \in DOMAIN datasets[i]
                            THEN "selected_videos" ELSE "repo_id")
              ELSE UnsupportedFormatError(format)
    ELSE IF Len(results) = i - 1 THEN ConverterError
    ELSE KeyError("status")

\* C7: a run that fails ends with one ClickException "Conversion failed"
\* that carries the exception raised inside (from the creation of the output
\* directory, the input check, a missing dataset field, the converter factory,
\* or the converter call), no other exception leaves convert_datasets, and
\* once it is raised nothing more happens: no further converter invocation.
C7_Theorem ==
    /\ [](pc = "raised" =>
            /\ raised.type = "ClickException"
            /\ raised.message = "Conversion failed"
            /\ DOMAIN raised = { "type", "message", "cause" }
            /\ raised.cause = OriginalCause)
    /\ [](pc # "raised" => raised = NoError)
    /\ [][pc = "raised" => (pc' = "raised" /\ calls' = calls /\ raised' = raised)]_vars

C7_Witness ==
    /\ pc = "raised"
    /\ raised = Wrap(ConverterError)
    /\ Len(calls) >= 1
    /\ Len(calls) < Len(datasets)

-----------------------------------------------------------------------------
(* C8 *)

\* The supported format that s spells, case ignored, if there is one.
Spelled(s) ==
    { k \in 1..Len(get_supported_formats) : s \in CaseVariants(get_supported_formats[k]) }

\* C8: validate_format(s) returns the registry's (lower-case) name when s
\* spells a supported format in any mix of cases, which is s lowercased, a
\* member of get_supported_formats() and a format _get_converter accepts; for
\* every other string it raises the unsupported-format ClickException.
C8_Theorem ==
    (pc = "return" /\ fn = "validate_format") =>
        IF Spelled(arg) # {}
        THEN /\ ~IsRaise(ret)
             /\ \A k \in Spelled(arg) : ret.value = get_supported_formats[k]
             /\ ret.value = lower(arg)
             /\ In(ret.value, get_supported_formats)
             /\ \A v \in BOOLEAN : ~IsRaise(_get_converter(ret.value, v))
        ELSE /\ IsRaise(ret)
             /\ ret.raise = UnsupportedFormatError(arg)

C8_Witness ==
    /\ pc = "return"
    /\ fn = "validate_format"
    /\ arg = upper(droid)
    /\ ret = [value |-> droid]

-----------------------------------------------------------------------------
(* C9 *)

Unit(text) == text[Len(text)]

\* C9: with a non-negative integer total_frames in the metadata the result is
\* a duration string, in seconds below 60000 frames, in minutes from 60000 to
\* below 3600000 frames and in hours from there on; without total_frames the
\* result is None.
C9_Original ==
    (pc = "return" /\ fn = "estimate_conversion_time") =>
        LET metadata == Get(arg, "metadata", << >>)
        IN  IF "total_frames" \in DOMAIN metadata
            THEN /\ ret # None
                 /\ Unit(ret) = (IF metadata["total_frames"] < 60000 THEN " seconds"
                                 ELSE IF metadata["total_frames"] < 3600000 THEN " minutes"
                                 ELSE " hours")
            ELSE ret = None

-----------------------------------------------------------------------------
(* C10 *)

\* C10: whenever converter.convert_dataset is about to be invoked, the input
\* directory passed to it exists.
C10_Original ==
    pc = "invoke" => exists(fs, input_dir)

====
